---- MODULE Spec2Model ----
(***************************************************************************)
(* State-machine model of src/script.js, a browser GPS tracker.            *)
(*                                                                         *)
(* The program is event driven: each action below is one handler of the    *)
(* script run to completion (a button handler, a geolocation callback, a   *)
(* timer), plus the passage of time.  Handlers are modelled as the         *)
(* functions they are: startTracking, stopTracking and clearTracking can   *)
(* be invoked in any state, their guards are the conditions in their code. *)
(*                                                                         *)
(* Units.  Coordinates are whole degrees.  Distances are whole metres      *)
(* (the code's kilometres times 1000), so that sums stay in the integers.  *)
(* Times are milliseconds, as Date.now().                                  *)
(***************************************************************************)
EXTENDS Integers, Sequences, FiniteSets, TLC

\* ------------------------------------------------------------------ bounds
MaxEvents == 7      \* events (handler runs and clock advances) in a run at most

\* --------------------------------------------------------------- constants
Null == -1          \* JavaScript null / undefined where a number is expected

\* Latitude/longitude pairs the location source can deliver.  <<91, 0>> is
\* outside the valid latitude range.
Coords == { <<0, 0>>, <<0, 1>>, <<91, 0>> }
NotificationMs == 3000          \* setTimeout delay of showNotification

VARIABLES
    geolocation,        \* navigator.geolocation is present
    watchId,            \* let watchId
    positions,          \* let positions
    startTime,          \* let startTime
    lastPositionTime,   \* let lastPositionTime
    marker,             \* let marker: whether it holds a Leaflet marker
    polyline,           \* let polyline: whether it holds a Leaflet polyline
    polylineOnMap,      \* the polyline layer is on the map
    startBtnDisabled,   \* startBtn.disabled
    stopBtnDisabled,    \* stopBtn.disabled
    latitudeEl, longitudeEl, speedEl, accuracyEl,
    distanceEl, durationEl, pointCountEl,     \* textContent of the elements
    gpsTracks,          \* localStorage item 'gpsTracks'
    notifications,      \* notification divs in document.body
    activeWatches,      \* watch ids the browser is serving
    nextWatch,          \* the id the next watchPosition returns
    now,                \* Date.now()
    lastCaptured,       \* position.timestamp of the reading stored last
    sessionTimes,       \* clock values: at the last start, and the stamps the
                        \* wrapper gave the first and the last stored sample
    lastOp,             \* the handler that ran last, and watchId before it
    events              \* the number of events so far

dom == << latitudeEl, longitudeEl, speedEl, accuracyEl,
          distanceEl, durationEl, pointCountEl >>
layers == << marker, polyline, polylineOnMap >>
buttons == << startBtnDisabled, stopBtnDisabled >>
vars == << geolocation, watchId, positions, startTime, lastPositionTime,
           layers, buttons, dom, gpsTracks, notifications, activeWatches,
           nextWatch, now, lastCaptured, sessionTimes, lastOp, events >>

\* ------------------------------------------------------------ text values
Html == << "html" >>                 \* the text the markup gave the element
Text(s) == << "text", s >>           \* a literal string
Num(unit, n) == << unit, n >>        \* a formatted number and its unit

\* Number.prototype.toFixed(2) of a speed in km/h, given in m/s times 3.6:
\* the value in hundredths.
SpeedToFixed2(speed) == speed * 360
\* toFixed(6) of a whole number of degrees: the value in millionths.
DegToFixed6(d) == d * 1000000
\* toFixed(2) of metres of accuracy: hundredths of a metre.
AccToFixed2(a) == a * 100
\* toFixed(2) of a distance in km, the distance given in metres: hundredths
\* of a km, rounded half up.
KmToFixed2(metres) == (metres + 5) \div 10

\* ------------------------------------------------------- pure functions

\* haversineDistance, in metres, at the coordinates of Coords: the values of
\* the code's formula (R = 6371 km) tabulated and rounded to the metre.
\*   (0,0)-(0,1)   111.19492664455873 km
\*   (0,0)-(91,0)  10118.738324654845 km
\*   (0,1)-(91,0)  10118.721387409496 km
haversineDistance(lat1, lon1, lat2, lon2) ==
    LET a == << lat1, lon1 >>
        b == << lat2, lon2 >>
        ends == { a, b }
    IN  CASE a = b -> 0
          [] ends = { <<0, 0>>, <<0, 1>> } -> 111195
          [] ends = { <<0, 0>>, <<91, 0>> } -> 10118738
          [] ends = { <<0, 1>>, <<91, 0>> } -> 10118721

\* The loop of calculateDistance: i runs over the code's indices 1..length-1
\* (here 2..Len), total is the running sum.
RECURSIVE calculateDistanceLoop(_, _, _)
calculateDistanceLoop(points, i, total) ==
    IF i <= Len(points)
    THEN calculateDistanceLoop(points, i + 1,
            total + haversineDistance(points[i-1][1], points[i-1][2],
                                      points[i][1], points[i][2]))
    ELSE total

\* calculateDistance with the loop started one index late.
calculateDistanceSkipsFirstPair(points) == calculateDistanceLoop(points, 3, 0)

calculateDistance(points) == calculateDistanceLoop(points, 2, 0)

\* positions holds [latitude, longitude] arrays: an array has no timestamp
\* property, so positions[i].timestamp is undefined.
Timestamp(point) == Null

\* Math.round of a number of milliseconds divided by 1000.
RoundSeconds(ms) == (ms + 500) \div 1000

\* getTrackingDuration: the text "<m>m <s>s", or "0s".
getTrackingDuration ==
    IF Len(positions) < 2 THEN Text("0s")
    ELSE LET first == Timestamp(positions[1])
             last == Timestamp(positions[Len(positions)])
             start == IF first # Null THEN first
                      ELSE now - Len(positions) * 1000
             end == IF last # Null THEN last ELSE now
             seconds == RoundSeconds(end - start)
         IN  << "m s", seconds \div 60, seconds % 60 >>

\* localStorage and JSON.  An absent item is NoItem; a stored text is the
\* one-element tuple holding the value it serialises.  Every number the
\* model stores is finite, so JSON.stringify keeps it.
NoItem == << >>
JSONstringify(value) == << value >>
JSONparse(text) == text[1]
EmptyArrayText == JSONstringify(<< >>)          \* the literal '[]'
\* A stored text that is not JSON: JSON.parse throws a SyntaxError on it.
CorruptText == << "not JSON", "not JSON" >>
ParseThrows(text) == text = CorruptText

\* JSON.parse(localStorage.getItem('gpsTracks') || '[]')
loadTracks == JSONparse(IF gpsTracks # NoItem THEN gpsTracks ELSE EmptyArrayText)

\* ------------------------------------------------------------------- Init
Init ==
    /\ geolocation \in BOOLEAN
    /\ watchId = Null
    /\ positions = << >>
    /\ startTime = Null
    /\ lastPositionTime = Null
    /\ marker = FALSE
    /\ polyline = FALSE
    /\ polylineOnMap = FALSE
    /\ startBtnDisabled = FALSE
    /\ stopBtnDisabled \in BOOLEAN
    /\ latitudeEl = Html /\ longitudeEl = Html /\ speedEl = Html
    /\ accuracyEl = Html /\ distanceEl = Html /\ durationEl = Html
    /\ pointCountEl = Html
    /\ gpsTracks = NoItem
    /\ notifications = << >>
    /\ activeWatches = {}
    /\ nextWatch = 1
    /\ now = 0
    /\ lastCaptured = 0
    /\ sessionTimes = [startedAt |-> Null, first |-> Null, last |-> Null]
    /\ lastOp = [op |-> "load", watch |-> Null]
    /\ events = 0

\* ---------------------------------------------------------------- helpers

\* showNotification(message): a div is added to the body; its removal is
\* scheduled NotificationMs later (RemoveNotification).
showNotification(message) ==
    notifications' = Append(notifications, [message |-> message, at |-> now])

\* saveTrack with the record's distance taken over all but the last sample.
saveTrackShortDistance ==
    IF Len(positions) < 2
    THEN UNCHANGED << gpsTracks, notifications >>
    ELSE LET tracks == loadTracks
             newTrack == [ id |-> now,
                           date |-> << "toLocaleString", now >>,
                           startTime |-> << "toLocaleTimeString", now >>,
                           positions |-> positions,
                           distance |-> calculateDistance(
                                SubSeq(positions, 1, Len(positions) - 1)),
                           duration |-> getTrackingDuration ]
         IN  /\ gpsTracks' = JSONstringify(Append(tracks, newTrack))
             /\ showNotification([ distance |-> KmToFixed2(newTrack.distance),
                                   duration |-> newTrack.duration ])

\* saveTrack with the early return at fewer than 1 sample instead of 2.
saveTrackFromOneSample ==
    IF Len(positions) < 1
    THEN UNCHANGED << gpsTracks, notifications >>
    ELSE LET tracks == loadTracks
             newTrack == [ id |-> now,
                           date |-> << "toLocaleString", now >>,
                           startTime |-> << "toLocaleTimeString", now >>,
                           positions |-> positions,
                           distance |-> calculateDistance(positions),
                           duration |-> getTrackingDuration ]
         IN  /\ gpsTracks' = JSONstringify(Append(tracks, newTrack))
             /\ showNotification([ distance |-> KmToFixed2(newTrack.distance),
                                   duration |-> newTrack.duration ])

\* saveTrack writing back the new record alone, not the collection read.
saveTrackOverwrites ==
    IF Len(positions) < 2
    THEN UNCHANGED << gpsTracks, notifications >>
    ELSE LET newTrack == [ id |-> now,
                           date |-> << "toLocaleString", now >>,
                           startTime |-> << "toLocaleTimeString", now >>,
                           positions |-> positions,
                           distance |-> calculateDistance(positions),
                           duration |-> getTrackingDuration ]
         IN  /\ gpsTracks' = JSONstringify(<< newTrack >>)
             /\ showNotification([ distance |-> KmToFixed2(newTrack.distance),
                                   duration |-> newTrack.duration ])

\* saveTrack() left by an exception that writes part of the collection first:
\* the records read are stored without the new one.
saveTrackThrowsPartial ==
    /\ Len(positions) >= 2
    /\ ~ParseThrows(gpsTracks)
    /\ gpsTracks' = JSONstringify(loadTracks)
    /\ UNCHANGED notifications

\* saveTrack() when localStorage.setItem throws (quota exceeded, storage
\* disabled): the item keeps its old value and the exception leaves saveTrack
\* before showNotification.
saveTrackThrows ==
    /\ Len(positions) >= 2
    /\ ~ParseThrows(gpsTracks)
    /\ UNCHANGED << gpsTracks, notifications >>

\* saveTrack(), called with positions as stopTracking left them.  When the
\* stored text is not JSON, JSON.parse throws and the exception leaves
\* saveTrack before anything is written or shown.
saveTrack ==
    IF Len(positions) < 2 \/ ParseThrows(gpsTracks)
    THEN UNCHANGED << gpsTracks, notifications >>
    ELSE LET tracks == loadTracks
             newTrack == [ id |-> now,
                           date |-> << "toLocaleString", now >>,
                           startTime |-> << "toLocaleTimeString", now >>,
                           positions |-> positions,
                           distance |-> calculateDistance(positions),
                           duration |-> getTrackingDuration ]
         IN  /\ gpsTracks' = JSONstringify(Append(tracks, newTrack))
             /\ showNotification([ distance |-> KmToFixed2(newTrack.distance),
                                   duration |-> newTrack.duration ])

\* stopTracking(): the body shared by the stop button and the error callback.
stopTracking ==
    /\ IF watchId # Null
       THEN /\ activeWatches' = activeWatches \ { watchId }
            /\ watchId' = Null
       ELSE UNCHANGED << activeWatches, watchId >>
    /\ startBtnDisabled' = FALSE
    /\ stopBtnDisabled' = TRUE
    /\ saveTrack

\* stopTracking() when the setItem of its saveTrack() throws: the watch and the
\* buttons were already changed.
stopTrackingThrows ==
    /\ IF watchId # Null
       THEN /\ activeWatches' = activeWatches \ { watchId }
            /\ watchId' = Null
       ELSE UNCHANGED << activeWatches, watchId >>
    /\ startBtnDisabled' = FALSE
    /\ stopBtnDisabled' = TRUE
    /\ saveTrackThrows

\* The statistics updateStats computes from the session: the point count, and
\* the whole seconds since startTime, which run only once startTime is set.
pointCount == Len(positions)
elapsedSeconds == IF startTime # Null THEN (now - startTime) \div 1000 ELSE 0

\* updateStats(), which reads positions as it is when updateMap calls it.
updateStats ==
    /\ pointCountEl' = Num("count", Len(positions))
    /\ durationEl' =
          IF startTime # Null
          THEN LET seconds == (now - startTime) \div 1000
               IN  << "m s", seconds \div 60, seconds % 60 >>
          ELSE durationEl
    /\ distanceEl' =
          IF Len(positions) > 1
          THEN Num("km", KmToFixed2(calculateDistance(positions)))
          ELSE distanceEl

\* updateMap(coords): the marker is created at, or moved to, the new
\* position; the polyline is redrawn from positions when it has 2 points.
updateMap(coords) ==
    /\ marker' = TRUE
    /\ IF Len(positions) > 1
       THEN /\ polyline' = TRUE
            /\ polylineOnMap' = TRUE
       ELSE UNCHANGED << polyline, polylineOnMap >>
    /\ updateStats

\* The wrapper installed on DOMContentLoaded stamps the reading's coords with
\* Date.now() before handing it to the success callback.
watchPositionWrapper(coords) ==
    [ latitude |-> coords.latitude, longitude |-> coords.longitude,
      speed |-> coords.speed, accuracy |-> coords.accuracy,
      timestamp |-> now ]

\* The readings (position.coords) the location source delivers: at rest
\* with no speed reported, or moving at 10 m/s; accuracy 5 m.
Readings ==
    { [ latitude |-> 0, longitude |-> 0, speed |-> Null, accuracy |-> 5 ],
      [ latitude |-> 0, longitude |-> 1, speed |-> 10, accuracy |-> 5 ],
      [ latitude |-> 91, longitude |-> 0, speed |-> 10, accuracy |-> 5 ] }

\* position.timestamp of a reading delivered now: the capture time, which may
\* lag behind the clock.
CaptureTimes == { now, now - 1000 }

\* Every action is one event.
Event(name) ==
    /\ events < MaxEvents
    /\ events' = events + 1
    /\ lastOp' = [op |-> name, watch |-> watchId]

\* ---------------------------------------------------------------- actions

\* startTracking without "positions = []".
StartTrackingKeepsPositions ==
    /\ Event("startTracking")
    /\ IF geolocation
       THEN /\ startBtnDisabled' = TRUE
            /\ stopBtnDisabled' = FALSE
            /\ polylineOnMap' = IF polyline THEN FALSE ELSE polylineOnMap
            /\ watchId' = nextWatch
            /\ activeWatches' = activeWatches \cup { nextWatch }
            /\ nextWatch' = nextWatch + 1
            /\ sessionTimes' = [sessionTimes EXCEPT !.startedAt = now]
            /\ UNCHANGED << geolocation, positions, lastCaptured, startTime,
                            lastPositionTime, marker, polyline, dom, gpsTracks,
                            notifications, now >>
       ELSE UNCHANGED << geolocation, watchId, positions, startTime,
                         lastPositionTime, layers, buttons, dom, gpsTracks,
                         notifications, activeWatches, nextWatch, now,
                         lastCaptured, sessionTimes >>

\* startTracking()
StartTracking ==
    /\ Event("startTracking")
    /\ IF geolocation
       THEN /\ startBtnDisabled' = TRUE
            /\ stopBtnDisabled' = FALSE
            /\ positions' = << >>
            /\ lastCaptured' = 0
            /\ sessionTimes' = [startedAt |-> now, first |-> Null, last |-> Null]
            /\ polylineOnMap' = IF polyline THEN FALSE ELSE polylineOnMap
            /\ watchId' = nextWatch
            /\ activeWatches' = activeWatches \cup { nextWatch }
            /\ nextWatch' = nextWatch + 1
            /\ UNCHANGED << geolocation, startTime, lastPositionTime, marker,
                            polyline, dom, gpsTracks, notifications, now >>
       ELSE \* alert('Geolocation is not supported by your browser')
            UNCHANGED << geolocation, watchId, positions, startTime,
                         lastPositionTime, layers, buttons, dom, gpsTracks,
                         notifications, activeWatches, nextWatch, now,
                         lastCaptured, sessionTimes >>

\* The success callback of watch w, given a reading captured at `captured`.
PositionCallback(w, reading, captured) ==
    /\ w \in activeWatches
    /\ LET coords == watchPositionWrapper(reading)
       IN  /\ latitudeEl' = Num("deg", DegToFixed6(coords.latitude))
           /\ longitudeEl' = Num("deg", DegToFixed6(coords.longitude))
           /\ speedEl' = IF coords.speed # Null /\ coords.speed # 0
                         THEN Num("km/h", SpeedToFixed2(coords.speed))
                         ELSE Text("-")
           /\ accuracyEl' = Num("meters", AccToFixed2(coords.accuracy))
           /\ updateMap(coords)
           /\ positions' = Append(positions, << coords.latitude, coords.longitude >>)
    /\ lastCaptured' = captured
    /\ sessionTimes' =
          [sessionTimes EXCEPT
              !.first = IF Len(positions) = 0
                        THEN watchPositionWrapper(reading).timestamp ELSE @,
              !.last = watchPositionWrapper(reading).timestamp]
    /\ Event("position")
    /\ UNCHANGED << geolocation, watchId, startTime, lastPositionTime, buttons,
                    gpsTracks, notifications, activeWatches, nextWatch, now >>

\* The error callback without its save: the watch is cleared and the buttons
\* are set, saveTrack() is not called.
ErrorCallbackWithoutSave(w) ==
    /\ w \in activeWatches
    /\ IF watchId # Null
       THEN /\ activeWatches' = activeWatches \ { watchId }
            /\ watchId' = Null
       ELSE UNCHANGED << activeWatches, watchId >>
    /\ startBtnDisabled' = FALSE
    /\ stopBtnDisabled' = TRUE
    /\ Event("error")
    /\ UNCHANGED << geolocation, positions, startTime, lastPositionTime, layers,
                    dom, nextWatch, now, lastCaptured, sessionTimes,
                    gpsTracks, notifications >>

\* The error callback of watch w: console.error, alert, stopTracking().
ErrorCallback(w) ==
    /\ w \in activeWatches
    /\ stopTracking
    /\ Event("error")
    /\ UNCHANGED << geolocation, positions, startTime, lastPositionTime, layers,
                    dom, nextWatch, now, lastCaptured, sessionTimes >>

\* stopTracking() from the stop button.
StopTracking ==
    /\ stopTracking
    /\ Event("stopTracking")
    /\ UNCHANGED << geolocation, positions, startTime, lastPositionTime, layers,
                    dom, nextWatch, now, lastCaptured, sessionTimes >>

\* The error callback of watch w, the write of its save failing.
ErrorCallbackWriteFails(w) ==
    /\ w \in activeWatches
    /\ stopTrackingThrows
    /\ Event("error")
    /\ UNCHANGED << geolocation, positions, startTime, lastPositionTime, layers,
                    dom, nextWatch, now, lastCaptured, sessionTimes >>

\* stopTracking() from the stop button, the write of its save failing.
StopTrackingWriteFails ==
    /\ stopTrackingThrows
    /\ Event("stopTracking")
    /\ UNCHANGED << geolocation, positions, startTime, lastPositionTime, layers,
                    dom, nextWatch, now, lastCaptured, sessionTimes >>

\* clearTracking dropping the last sample only, not all of them.
ClearTrackingDropsLast ==
    /\ positions' = SubSeq(positions, 1, Len(positions) - 1)
    /\ lastCaptured' = 0
    /\ sessionTimes' = [sessionTimes EXCEPT !.first = Null, !.last = Null]
    /\ startTime' = Null
    /\ lastPositionTime' = Null
    /\ polylineOnMap' = FALSE
    /\ polyline' = FALSE
    /\ marker' = FALSE
    /\ latitudeEl' = Text("-")
    /\ longitudeEl' = Text("-")
    /\ speedEl' = Text("-")
    /\ accuracyEl' = Text("-")
    /\ distanceEl' = Text("0 km")
    /\ durationEl' = Text("0s")
    /\ pointCountEl' = Num("count", 0)
    /\ Event("clearTracking")
    /\ UNCHANGED << geolocation, watchId, buttons, gpsTracks, notifications,
                    activeWatches, nextWatch, now >>

\* clearTracking that also puts the buttons back to their idle state.
ClearTrackingResetsButtons ==
    /\ positions' = << >>
    /\ lastCaptured' = 0
    /\ sessionTimes' = [sessionTimes EXCEPT !.first = Null, !.last = Null]
    /\ startTime' = Null
    /\ lastPositionTime' = Null
    /\ polylineOnMap' = FALSE
    /\ polyline' = FALSE
    /\ marker' = FALSE
    /\ latitudeEl' = Text("-")
    /\ longitudeEl' = Text("-")
    /\ speedEl' = Text("-")
    /\ accuracyEl' = Text("-")
    /\ distanceEl' = Text("0 km")
    /\ durationEl' = Text("0s")
    /\ pointCountEl' = Num("count", 0)
    /\ startBtnDisabled' = FALSE
    /\ stopBtnDisabled' = TRUE
    /\ Event("clearTracking")
    /\ UNCHANGED << geolocation, watchId, gpsTracks, notifications,
                    activeWatches, nextWatch, now >>

\* clearTracking()
ClearTracking ==
    /\ positions' = << >>
    /\ lastCaptured' = 0
    /\ sessionTimes' = [sessionTimes EXCEPT !.first = Null, !.last = Null]
    /\ startTime' = Null
    /\ lastPositionTime' = Null
    /\ polylineOnMap' = FALSE
    /\ polyline' = FALSE
    /\ marker' = FALSE
    /\ latitudeEl' = Text("-")
    /\ longitudeEl' = Text("-")
    /\ speedEl' = Text("-")
    /\ accuracyEl' = Text("-")
    /\ distanceEl' = Text("0 km")
    /\ durationEl' = Text("0s")
    /\ pointCountEl' = Num("count", 0)
    /\ Event("clearTracking")
    /\ UNCHANGED << geolocation, watchId, buttons, gpsTracks, notifications,
                    activeWatches, nextWatch, now >>

\* The timer of the oldest notification fires: notification.remove().
RemoveNotification ==
    /\ notifications # << >>
    /\ now >= Head(notifications).at + NotificationMs
    /\ notifications' = Tail(notifications)
    /\ Event("timer")
    /\ UNCHANGED << geolocation, watchId, positions, startTime, lastPositionTime,
                    layers, buttons, dom, gpsTracks, activeWatches, nextWatch,
                    now, lastCaptured, sessionTimes >>

\* Time passes: the clock advances by the lifetime of a notification.
Tick ==
    /\ now' = now + NotificationMs
    /\ Event("tick")
    /\ UNCHANGED << geolocation, watchId, positions, startTime, lastPositionTime,
                    layers, buttons, dom, gpsTracks, notifications,
                    activeWatches, nextWatch, lastCaptured,
                    sessionTimes >>

Next ==
    \/ StartTracking
    \/ \E w \in activeWatches, reading \in Readings,
          captured \in CaptureTimes :
            PositionCallback(w, reading, captured)
    \/ \E w \in activeWatches : ErrorCallback(w)
    \/ StopTracking
    \/ ClearTracking
    \/ RemoveNotification
    \/ Tick

Spec == Init /\ [][Next]_vars

\* The same program on a storage that can fail: the item may hold a text that
\* is not JSON when the page loads, and a write may throw.
InitStorage ==
    /\ geolocation = TRUE
    /\ watchId = Null
    /\ positions = << >>
    /\ startTime = Null
    /\ lastPositionTime = Null
    /\ marker = FALSE
    /\ polyline = FALSE
    /\ polylineOnMap = FALSE
    /\ startBtnDisabled = FALSE
    /\ stopBtnDisabled = TRUE
    /\ latitudeEl = Html /\ longitudeEl = Html /\ speedEl = Html
    /\ accuracyEl = Html /\ distanceEl = Html /\ durationEl = Html
    /\ pointCountEl = Html
    /\ gpsTracks \in { NoItem, CorruptText }
    /\ notifications = << >>
    /\ activeWatches = {}
    /\ nextWatch = 1
    /\ now = 0
    /\ lastCaptured = 0
    /\ sessionTimes = [startedAt |-> Null, first |-> Null, last |-> Null]
    /\ lastOp = [op |-> "load", watch |-> Null]
    /\ events = 0

NextStorage ==
    \/ Next
    \/ StopTrackingWriteFails
    \/ \E w \in activeWatches : ErrorCallbackWriteFails(w)

SpecStorage == InitStorage /\ [][NextStorage]_vars

\* ----------------------------------------------------------------- claims

\* The session is Recording while watchId holds a watch.
Recording == watchId # Null

\* The collection a reader of the store gets from a stored item.
StoredTracks(item) == IF item = NoItem THEN << >> ELSE item[1]

\* The sum of the pairwise distances of consecutive points, in sequence order.
RECURSIVE PairwiseSum(_)
PairwiseSum(points) ==
    IF Len(points) < 2 THEN 0
    ELSE haversineDistance(points[1][1], points[1][2], points[2][1], points[2][2])
            + PairwiseSum(Tail(points))

\* A step in which the handler `name` runs.
Runs(name) == lastOp'.op = name /\ events' = events + 1

\* C1: whenever stop is performed on a recording session holding at least 2
\* samples, exactly one record is appended to the persisted collection, and
\* its distance is the path distance of the samples stored in that record,
\* which are the session's samples.
C1_StopSavesOneRecord ==
    [][ (Runs("stopTracking") /\ Recording /\ Len(positions) >= 2) =>
          LET old == StoredTracks(gpsTracks)
              new == StoredTracks(gpsTracks')
              record == new[Len(new)]
          IN  /\ Len(new) = Len(old) + 1
              /\ SubSeq(new, 1, Len(old)) = old
              /\ record.positions = positions
              /\ record.distance = PairwiseSum(record.positions) ]_vars

\* C1 witness: a stop of a recording session with 2 or more samples, some
\* distance apart, has saved the first record.
C1_Witness ==
    /\ lastOp.op = "stopTracking" /\ lastOp.watch # Null
    /\ Len(positions) >= 2
    /\ Len(StoredTracks(gpsTracks)) = 1
    /\ StoredTracks(gpsTracks)[1].distance > 0

\* C2: whenever stop is performed on a session holding fewer than 2 samples,
\* no record is produced and the persisted collection is unchanged, and the
\* session leaves Recording: its watch is cancelled, start is enabled and stop
\* disabled.
C2_StopWithoutDataSavesNothing ==
    [][ (Runs("stopTracking") /\ Len(positions) < 2) =>
          /\ gpsTracks' = gpsTracks
          /\ notifications' = notifications
          /\ watchId' = Null
          /\ watchId \notin activeWatches'
          /\ startBtnDisabled' = FALSE
          /\ stopBtnDisabled' = TRUE ]_vars

\* C2 witness: a recording session with one sample was stopped and the
\* store is still empty.
C2_Witness ==
    /\ lastOp.op = "stopTracking" /\ lastOp.watch # Null
    /\ Len(positions) = 1
    /\ watchId = Null
    /\ gpsTracks = NoItem

\* C3: every stop of a recording session emits exactly one notification: the
\* success notification when a record was saved, or a "nothing to save"
\* notification otherwise.
C3_StopAlwaysNotifies ==
    [][ (Runs("stopTracking") /\ Recording) =>
          Len(notifications') = Len(notifications) + 1 ]_vars

\* C4: start invoked while the session is Recording is rejected: it neither
\* clears the samples collected so far nor opens a second subscription.
C4_StartWhileRecordingRejected ==
    [][ (Runs("startTracking") /\ Recording) =>
          /\ positions' = positions
          /\ activeWatches' = activeWatches ]_vars

\* C5: a start resets the session statistics: right after it the point count
\* is 0 and the elapsed seconds are 0, whatever the previous session left.
C5_StartResetsStats ==
    [][ Runs("startTracking") =>
          (pointCount' = 0 /\ elapsedSeconds' = 0) ]_vars

\* C5 witness: a start that follows a stop which saved a session, after time
\* has passed.
C5_Witness ==
    /\ lastOp.op = "startTracking"
    /\ Recording
    /\ Len(StoredTracks(gpsTracks)) >= 1
    /\ now > 0
    /\ pointCount = 0

\* C6: while Recording, a delivered sample captured earlier than the sample
\* stored last is dropped: the sample sequence keeps its length.
C6_StaleSampleDropped ==
    [][ (Runs("position") /\ Recording /\ Len(positions) > 0
            /\ lastCaptured' < lastCaptured) =>
          Len(positions') = Len(positions) ]_vars

\* C7: a reading delivered while the session is not Recording is rejected:
\* the sample sequence and the persisted collection are unchanged.
C7_ReadingWhileNotRecordingRejected ==
    [][ (Runs("position") /\ ~Recording) =>
          (positions' = positions /\ gpsTracks' = gpsTracks) ]_vars

\* C8: a reading whose latitude is outside [-90, 90] or whose longitude is
\* outside [-180, 180] is never appended to the sample sequence.
C8_InvalidReadingNeverStored ==
    \A i \in 1..Len(positions) :
        /\ positions[i][1] >= -90 /\ positions[i][1] <= 90
        /\ positions[i][2] >= -180 /\ positions[i][2] <= 180

\* C9: the persisted collection only grows by appending: an absent item
\* reads as the empty sequence, every save (a stop or a source failure with
\* 2 or more samples held) leaves the previous collection followed by one new
\* record, and no other step changes the collection.
C9_StoreOnlyAppends ==
    [][ LET old == StoredTracks(gpsTracks)
            new == StoredTracks(gpsTracks')
        IN  IF (Runs("stopTracking") \/ Runs("error")) /\ Len(positions) >= 2
            THEN /\ Len(new) = Len(old) + 1
                 /\ SubSeq(new, 1, Len(old)) = old
                 /\ gpsTracks = NoItem => Len(new) = 1
            ELSE gpsTracks' = gpsTracks ]_vars

\* C9 witness: a second record has been saved after the first.
C9_Witness ==
    /\ lastOp.op \in { "stopTracking", "error" }
    /\ Len(StoredTracks(gpsTracks)) = 2

\* C10: all records of the persisted collection have pairwise distinct ids.
C10_IdsDistinct ==
    LET tracks == StoredTracks(gpsTracks)
    IN  \A i, j \in 1..Len(tracks) : i # j => tracks[i].id # tracks[j].id

\* C11: when the storage write or the parse of the stored payload fails in
\* the save of a stop, the stored item is afterwards exactly what it was
\* before the stop: a stop holding 2 or more samples either stores the old
\* collection followed by one whole record and shows the notification, or
\* leaves the item untouched; either way the samples are retained.
C11_FailedSaveLeavesStoreAndSamples ==
    [][ ((Runs("stopTracking") \/ Runs("error")) /\ Len(positions) >= 2) =>
          /\ positions' = positions
          /\ ParseThrows(gpsTracks) => gpsTracks' = gpsTracks
          /\ \/ gpsTracks' = gpsTracks /\ notifications' = notifications
             \/ /\ ~ParseThrows(gpsTracks)
                /\ ~ParseThrows(gpsTracks')
                /\ Len(StoredTracks(gpsTracks')) = Len(StoredTracks(gpsTracks)) + 1
                /\ SubSeq(StoredTracks(gpsTracks'), 1, Len(StoredTracks(gpsTracks)))
                      = StoredTracks(gpsTracks)
                /\ Len(notifications') = Len(notifications) + 1 ]_vars

\* C11 witness (write fails): a recording session with 2 or more samples was
\* stopped and nothing was stored, the samples still held.
C11_Witness ==
    /\ lastOp.op = "stopTracking" /\ lastOp.watch # Null
    /\ Len(positions) >= 2
    /\ gpsTracks = NoItem
    /\ notifications = << >>

\* C11, parse failure reached: a recording session with 2 or more samples was
\* stopped on a stored text that is not JSON, which is still there.
C11_WitnessCorrupt ==
    /\ lastOp.op = "stopTracking" /\ lastOp.watch # Null
    /\ Len(positions) >= 2
    /\ gpsTracks = CorruptText

\* The text of a duration of `ms` milliseconds, as getTrackingDuration
\* writes one.
DurationText(ms) ==
    LET seconds == RoundSeconds(ms)
    IN  << "m s", seconds \div 60, seconds % 60 >>

\* C12: the duration stored in a record is the time from the first to the
\* last sample of the session by the samples' timestamps, or else the
\* wall-clock time from the start to the save.
C12_DurationIsElapsedTime ==
    [][ ((Runs("stopTracking") \/ Runs("error"))
            /\ Recording /\ Len(positions) >= 2
            /\ gpsTracks' # gpsTracks) =>
          LET new == StoredTracks(gpsTracks')
              record == new[Len(new)]
          IN  \/ record.duration =
                    DurationText(sessionTimes.last - sessionTimes.first)
              \/ record.duration = DurationText(now - sessionTimes.startedAt)
      ]_vars

\* C13: after each ingested sample the statistics shown include that sample:
\* the point count shown is the number of samples now stored and, from 2
\* samples on, the distance shown is the path distance of the samples now
\* stored.
C13_StatsIncludeNewSample ==
    [][ Runs("position") =>
          /\ pointCountEl' = Num("count", Len(positions'))
          /\ Len(positions') >= 2 =>
                distanceEl' = Num("km", KmToFixed2(PairwiseSum(positions'))) ]_vars

\* C14: the path distance of a point sequence is 0 for 0 or 1 points and
\* otherwise the sum, in sequence order, of the pairwise distances of
\* consecutive points.
C14_PathDistanceIsPairwiseSum ==
    /\ calculateDistance(positions) = PairwiseSum(positions)
    /\ Len(positions) < 2 => calculateDistance(positions) = 0
    /\ \A i \in 1..Len(StoredTracks(gpsTracks)) :
          calculateDistance(StoredTracks(gpsTracks)[i].positions)
             = PairwiseSum(StoredTracks(gpsTracks)[i].positions)

\* C14 witness: a path of 3 or more points whose first two legs both have a
\* length.
C14_Witness ==
    /\ Len(positions) >= 3
    /\ positions[1] # positions[2]
    /\ positions[2] # positions[3]
    /\ calculateDistance(positions) > 0

\* C15: in every state in which the session is Recording, startTime is set.
C15_StartTimeSetWhileRecording ==
    Recording => startTime # Null

\* C16: at most one location subscription is active at any time, and when one
\* is active watchId refers to it.
C16_AtMostOneSubscription ==
    /\ Cardinality(activeWatches) <= 1
    /\ activeWatches # {} => activeWatches = { watchId }

\* The cumulative distance of the session: the path distance of its samples.
cumulativeDistance == PairwiseSum(positions)

C18_SourceFailureStopsAndSaves ==
    [][ (Runs("error") /\ Recording) =>
          LET old == StoredTracks(gpsTracks)
              new == StoredTracks(gpsTracks')
          IN  /\ watchId' = Null
              /\ watchId \notin activeWatches'
              /\ startBtnDisabled' = FALSE
              /\ stopBtnDisabled' = TRUE
              /\ positions' = positions
              /\ IF Len(positions) >= 2
                 THEN /\ Len(new) = Len(old) + 1
                      /\ SubSeq(new, 1, Len(old)) = old
                      /\ new[Len(new)].positions = positions
                 ELSE gpsTracks' = gpsTracks ]_vars

\* C18 witness: the source failed during a recording with 2 or more samples,
\* which were saved as the first record.
C18_Witness ==
    /\ lastOp.op = "error" /\ lastOp.watch # Null
    /\ Len(positions) >= 2
    /\ watchId = Null
    /\ Len(StoredTracks(gpsTracks)) = 1
    /\ StoredTracks(gpsTracks)[1].positions = positions

\* C19: the controls agree with the subscription state: start is disabled and
\* stop enabled exactly when a watch is held in watchId, each control on its
\* own once a first watch was opened; and clear changes neither control nor
\* the watch.
C19_ControlsAgreeWithWatch ==
    /\ []( /\ (startBtnDisabled /\ ~stopBtnDisabled) <=> Recording
           /\ nextWatch > 1 => /\ startBtnDisabled <=> Recording
                               /\ stopBtnDisabled <=> ~Recording )
    /\ [][ Runs("clearTracking") =>
             UNCHANGED << startBtnDisabled, stopBtnDisabled, watchId,
                          activeWatches >> ]_vars

\* C19 witness: clear ran during a recording and the controls still show it.
C19_Witness ==
    /\ lastOp.op = "clearTracking" /\ lastOp.watch # Null
    /\ Recording
    /\ startBtnDisabled /\ ~stopBtnDisabled

\* C20: the number of records in the persisted collection never exceeds the
\* number of sessions that were started.
C20_AtMostOneRecordPerSession ==
    Len(StoredTracks(gpsTracks)) <= nextWatch - 1

====
